---- MODULE Spec2Model ----
(***************************************************************************)
(* FontRenderer (src/main.cpp): renders the characters of a code range     *)
(* with each (font name, size) given on the command line and prints the    *)
(* bitmaps as one C/C++ array literal on standard output.                  *)
(*                                                                         *)
(* Text is modelled as text: a string is a sequence of one-character       *)
(* strings, standard output is a sequence of lines.  An unsigned long is   *)
(* four 16-bit limbs (least significant first), so that 64-bit values and  *)
(* their conversions are computed exactly.                                 *)
(***************************************************************************)
EXTENDS Integers, Sequences, FiniteSets, TLC

VARIABLES
    argv,        \* main's argv: argv[1] is the program name (C's argv[0])
    pc,          \* position of the control thread
    exit_status, \* "running", "EXIT_SUCCESS", "EXIT_FAILURE" or "SIGABRT"
    out,         \* std::cout: the lines written so far
    arg_ind,     \* main: index of the next argument (C index)
    desc,        \* main: FontDesc desc
    c,           \* getCharacters: loop variable (uint8_t)
    result,      \* getCharacters: QString result
    characters,  \* main: QString characters
    height,      \* appendFontBitmap: int height
    y,           \* appendFontBitmap: int y (baseline)
    pixmap,      \* appendFontBitmap: QPixmap pixmap (the canvas)
    image,       \* appendFontBitmap: QImage image
    width,       \* appendFontBitmap: int width
    ch_ind,      \* appendFontBitmap: position of the range-for in characters
    row_y,       \* appendFontBitmap: inner loop variable y
    sample       \* one call of normalize: its argument, channels and result

vars == <<argv, pc, exit_status, out, arg_ind, desc, c, result, characters,
          height, y, pixmap, image, width, ch_ind, row_y, sample>>

(***************************************************************************)
(* Bounds of the model.                                                    *)
(***************************************************************************)
\* Largest number of font-name / font-size arguments on a command line.
MaxTokens == 3
\* Number of characters a QString can hold before its allocation fails.
MaxStringSize == 4

(***************************************************************************)
(* Characters, decimal text, indentation.                                  *)
(***************************************************************************)
DecimalDigits == <<"0", "1", "2", "3", "4", "5", "6", "7", "8", "9">>

IsDigit(ch) == \E d \in 1..10 : DecimalDigits[d] = ch

DigitValue(ch) == (CHOOSE d \in 1..10 : DecimalDigits[d] = ch) - 1

IsSpace(ch) == ch \in {" ", "\t", "\n", "\r", "\f"}

\* operator<<(std::ostream&, int): the decimal text of an int.
RECURSIVE DecimalNat(_)
DecimalNat(n) ==
    IF n < 10 THEN <<DecimalDigits[n + 1]>>
    ELSE DecimalNat(n \div 10) \o <<DecimalDigits[(n % 10) + 1]>>

Decimal(n) == IF n < 0 THEN <<"-">> \o DecimalNat(-n) ELSE DecimalNat(n)

\* indent(tabs): "tabs" tab characters.
indent(tabs) == [i \in 1..tabs |-> "\t"]

(***************************************************************************)
(* unsigned long: 64 bits as four 16-bit limbs, least significant first.   *)
(***************************************************************************)
LimbBase == 2^16

ULongZero == <<0, 0, 0, 0>>

ULONG_MAX == <<LimbBase - 1, LimbBase - 1, LimbBase - 1, LimbBase - 1>>

\* v * 10 + d, with the carry out of the top limb.
ULongMulAdd(v, d) ==
    LET t1 == v[1] * 10 + d
        t2 == v[2] * 10 + (t1 \div LimbBase)
        t3 == v[3] * 10 + (t2 \div LimbBase)
        t4 == v[4] * 10 + (t3 \div LimbBase)
    IN  [value |-> <<t1 % LimbBase, t2 % LimbBase, t3 % LimbBase, t4 % LimbBase>>,
         carry |-> t4 \div LimbBase]

\* 2^64 - v (unsigned negation).
ULongNegate(v) ==
    LET n1 == (LimbBase - 1 - v[1]) + 1
        n2 == (LimbBase - 1 - v[2]) + (n1 \div LimbBase)
        n3 == (LimbBase - 1 - v[3]) + (n2 \div LimbBase)
        n4 == (LimbBase - 1 - v[4]) + (n3 \div LimbBase)
    IN  <<n1 % LimbBase, n2 % LimbBase, n3 % LimbBase, n4 % LimbBase>>

\* v <= n for a small n (n < 2^16).
ULongLeq(v, n) == v[4] = 0 /\ v[3] = 0 /\ v[2] = 0 /\ v[1] <= n

(***************************************************************************)
(* std::stoul(str): leading white space, an optional sign, decimal digits; *)
(* std::invalid_argument when there is no digit, std::out_of_range when    *)
(* the value does not fit an unsigned long; characters after the digits    *)
(* are ignored; a minus sign negates the value as an unsigned long.        *)
(***************************************************************************)
RECURSIVE SkipSpace(_, _)
SkipSpace(s, i) ==
    IF i <= Len(s) /\ IsSpace(s[i]) THEN SkipSpace(s, i + 1) ELSE i

RECURSIVE Accumulate(_, _, _, _, _)
Accumulate(s, i, acc, overflow, any) ==
    IF i <= Len(s) /\ IsDigit(s[i])
    THEN LET m == ULongMulAdd(acc, DigitValue(s[i]))
             o == overflow \/ m.carry > 0
         IN  Accumulate(s, i + 1, IF o THEN ULONG_MAX ELSE m.value, o, TRUE)
    ELSE [value |-> acc, overflow |-> overflow, any |-> any]

stoul(s) ==
    LET i == SkipSpace(s, 1)
        neg == i <= Len(s) /\ s[i] = "-"
        j == IF i <= Len(s) /\ s[i] \in {"+", "-"} THEN i + 1 ELSE i
        r == Accumulate(s, j, ULongZero, FALSE, FALSE)
    IN  IF ~r.any THEN [status |-> "invalid_argument", value |-> ULongZero]
        ELSE IF r.overflow THEN [status |-> "out_of_range", value |-> ULONG_MAX]
        ELSE [status |-> "ok",
              value |-> IF neg THEN ULongNegate(r.value) ELSE r.value]

\* A coercion that clamps a value above 255 to 255.
CoerceCodeClamped(v) == IF ULongLeq(v, 255) THEN v[1] % 256 ELSE 255

\* desc.from = from <= 255 ? static_cast<uint8_t>(from) : 0
CoerceCode(v) == IF ULongLeq(v, 255) THEN v[1] % 256 ELSE 0

\* desc.size = number: unsigned long to int keeps the low 32 bits.
ToInt(v) ==
    IF v[2] >= LimbBase \div 2
    THEN (v[2] - LimbBase) * LimbBase + v[1]
    ELSE v[2] * LimbBase + v[1]

(***************************************************************************)
(* QRgb: 0xAARRGGBB as <<0xAARR, 0xGGBB>>.                                 *)
(***************************************************************************)
qRgb(r, g, b) == <<255 * 256 + r, g * 256 + b>>

Black == qRgb(0, 0, 0)

White == qRgb(255, 255, 255)

\* normalize with the channel sum kept in a uint8_t.
normalizeByteSum(color, ceiling) ==
    LET red == color[1] % 256
        green == color[2] \div 256
        blue == color[2] % 256
    IN  (((red + green + blue) % 256) * ceiling) \div (3 * 255)

\* normalize(color, ceiling)
normalize(color, ceiling) ==
    LET red == color[1] % 256        \* (color & 0x00FF0000) >> 16
        green == color[2] \div 256   \* (color & 0x0000FF00) >> 8
        blue == color[2] % 256       \*  color & 0x000000FF
    IN  ((red + green + blue) * ceiling) \div (3 * 255)

(***************************************************************************)
(* The font engine (Qt), which the program only calls.  It is a fixed      *)
(* function of the font and the character: metrics of a font, advance      *)
(* width and ink coverage of a glyph.  The coverage is composited onto the *)
(* canvas with the white pen (source-over).                                *)
(***************************************************************************)
\* QFont(family, pointSize): a point size <= 0 leaves the default size.
QFont(family, pointSize) ==
    [family |-> family, pointSize |-> IF pointSize <= 0 THEN 12 ELSE pointSize]

FontMetricsHeight(font) == 1 + ((font.pointSize \div 4) % 2)

FontMetricsMaxWidth(font) == 2

FontMetricsOverlinePos(font) == 1

FontMetricsWidth(font, ch) == ch % 3

GlyphCoverage(font, ch, x, py) ==
    IF x >= FontMetricsWidth(font, ch) THEN 0
    ELSE IF (x + py + ch) % 2 = 1 THEN 255
    ELSE IF ch % 3 = 2 /\ x = 1 THEN 128
    ELSE 0

\* One channel of the pen (255) over the canvas with coverage a.
Blend(old, a) == (old * (255 - a) + 255 * a) \div 255

BlendPixel(color, a) ==
    qRgb(Blend(color[1] % 256, a), Blend(color[2] \div 256, a), Blend(color[2] % 256, a))

\* QPixmap(w, h) with every pixel the given colour.
Canvas(w, h, color) == [p \in (0..(w - 1)) \X (0..(h - 1)) |-> color]

\* painter.drawText(0, y, c) on the canvas.
drawText(canvas, font, baseline, ch) ==
    [p \in DOMAIN canvas |->
        BlendPixel(canvas[p], GlyphCoverage(font, ch, p[1], p[2] - baseline))]

\* image.pixel(x, y): 12345 for a coordinate outside the image.
pixel(img, x, py) == IF <<x, py>> \in DOMAIN img THEN img[<<x, py>>] ELSE <<0, 12345>>

(***************************************************************************)
(* The lines the program writes.                                           *)
(***************************************************************************)
UsageLine(prog) ==
    <<"B", "a", "s", "i", "c", " ", "u", "s", "a", "g", "e", ":", " ">>
    \o prog
    \o <<" ", "[", "a", "s", "c", "i", "i", "-", "f", "r", "o", "m", "]", " ",
         "[", "a", "s", "c", "i", "i", "-", "t", "o", "]", " ">>
    \o <<"[", "c", "p", "p", "-", "t", "y", "p", "e", "]", " ",
         "[", "a", "r", "r", "-", "n", "a", "m", "e", "]", " ",
         "[", "[", "f", "o", "n", "t", "-", "n", "a", "m", "e", "]", " ",
         "[", "f", "o", "n", "t", "-", "s", "i", "z", "e", "]", " ", ".", ".", "]">>

\* openFontArray(type, name)
openFontArray(type, name) ==
    << type \o <<" ">> \o name \o <<" ", "=", " ">>,
       <<"{">> >>

\* closeFontArray()
closeFontArray == << <<"}", ";">> >>

\* appendFontBitmap: the table's opening lines.
TableHeader(d, h) ==
    << indent(1) \o <<"{">>,
       indent(2) \o <<"\"">> \o d.name \o <<"\"", ",">>,
       indent(2) \o Decimal(d.size) \o <<",">>,
       indent(2) \o Decimal(h) \o <<",">>,
       indent(2) \o Decimal(d.from) \o <<",">>,
       indent(2) \o Decimal(d.to) \o <<",">>,
       indent(2) \o <<"{">> >>

\* appendFontBitmap: the opening lines of one character.
CharHeader(w) ==
    << indent(3) \o <<"{">>,
       indent(4) \o Decimal(w) \o <<",">>,
       indent(4) \o <<"{">> >>

\* appendFontBitmap: the inner loop over x of one pixel row.
RECURSIVE RowCells(_, _, _, _)
RowCells(img, x, py, w) ==
    IF x < w
    THEN Decimal(normalize(pixel(img, x, py), 255)) \o <<",">> \o RowCells(img, x + 1, py, w)
    ELSE <<>>

RowLine(img, py, w) == indent(5) \o RowCells(img, 0, py, w)

\* appendFontBitmap: the closing lines of one character.
CharFooter ==
    << indent(4) \o <<"}">>,
       indent(3) \o <<"}", ",">> >>

\* appendFontBitmap: the table's closing lines.
TableFooter ==
    << indent(2) \o <<"}">>,
       indent(1) \o <<"}">> >>

(***************************************************************************)
(* Command lines.                                                          *)
(***************************************************************************)
ProgramName == <<"f", "r">>

FromTokens == { <<"1">>, <<"2", "5", "4">>, <<"3", "0", "0">>, <<"x">> }

ToTokens == { <<"2">>, <<"2", "5", "5">>, <<"3", "0", "0">> }

TypeTokens == { <<"u", "8">> }

NameTokens == { <<"f">> }

FontTokens ==
    { <<"A">>, <<"B">>, <<>>,
      <<"1", "0">>, <<"0">>,
      <<"4", "2", "9", "4", "9", "6", "7", "3", "0", "6">>,
      <<"9", "9", "9", "9", "9", "9", "9", "9", "9", "9",
        "9", "9", "9", "9", "9", "9", "9", "9", "9", "9">> }

argc == Len(argv)

\* argv[i] of the C program.
Arg(i) == argv[i + 1]

NoDesc == [name |-> <<>>, size |-> 0, from |-> 0, to |-> 0]

NoSample == [color |-> Black, red |-> 0, green |-> 0, blue |-> 0,
             result |-> 0, pc |-> "idle"]

NoCanvas == Canvas(0, 0, Black)

Init ==
    /\ \E f \in FromTokens, t \in ToTokens, ty \in TypeTokens, nm \in NameTokens,
          n \in 0..4, k \in 0..MaxTokens :
          \E toks \in [1..k -> FontTokens] :
             argv = <<ProgramName>>
                    \o (IF n < 4 THEN SubSeq(<<f, t, ty, nm>>, 1, n)
                        ELSE <<f, t, ty, nm>> \o toks)
    /\ pc = "main"
    /\ exit_status = "running"
    /\ out = <<>>
    /\ arg_ind = 1
    /\ desc = NoDesc
    /\ c = 0
    /\ result = <<>>
    /\ characters = <<>>
    /\ height = 0
    /\ y = 0
    /\ pixmap = NoCanvas
    /\ image = NoCanvas
    /\ width = 0
    /\ ch_ind = 0
    /\ row_y = 0
    /\ sample = NoSample

renderVars == <<height, y, pixmap, image, width, ch_ind, row_y>>

(***************************************************************************)
(* main                                                                    *)
(***************************************************************************)
\* if (argc < 7) { usage; return EXIT_FAILURE; }
main_Usage ==
    /\ pc = "main"
    /\ argc < 7
    /\ out' = Append(out, UsageLine(Arg(0)))
    /\ exit_status' = "EXIT_FAILURE"
    /\ pc' = "exited"
    /\ UNCHANGED <<argv, arg_ind, desc, c, result, characters, renderVars, sample>>

\* The range check of main: desc.from > desc.to.
RangeRejected(from, to) == from > to

\* from = stoul(argv[1]); to = stoul(argv[2]); coercion; range check.
main_ParseRange ==
    /\ pc = "main"
    /\ argc >= 7
    /\ LET from == stoul(Arg(1))
           to == stoul(Arg(2))
           d == [desc EXCEPT !.from = CoerceCode(from.value),
                             !.to = CoerceCode(to.value)]
       IN  IF from.status # "ok" \/ to.status # "ok"
           THEN \* the exception leaves main: std::terminate
                /\ exit_status' = "SIGABRT"
                /\ pc' = "exited"
                /\ UNCHANGED <<desc, c, arg_ind>>
           ELSE IF RangeRejected(d.from, d.to)
           THEN /\ desc' = d
                /\ arg_ind' = 3
                /\ exit_status' = "EXIT_FAILURE"
                /\ pc' = "exited"
                /\ UNCHANGED c
           ELSE /\ desc' = d
                /\ arg_ind' = 3
                /\ c' = d.from
                /\ pc' = "getCharacters"
                /\ UNCHANGED exit_status
    /\ UNCHANGED <<argv, out, result, characters, renderVars, sample>>

(***************************************************************************)
(* getCharacters(from, to)                                                 *)
(***************************************************************************)
\* The loop condition c <= to.
InRange(ch, to) == ch <= to

\* ++c on a uint8_t.
NextCode(ch) == (ch + 1) % 256

\* result += c; ++c
getCharacters_Append ==
    /\ pc = "getCharacters"
    /\ InRange(c, desc.to)
    /\ Len(result) < MaxStringSize
    /\ result' = Append(result, c)
    /\ c' = NextCode(c)
    /\ UNCHANGED <<argv, pc, exit_status, out, arg_ind, desc, characters,
                   renderVars, sample>>

\* result += c when the string cannot grow: std::bad_alloc leaves main.
getCharacters_BadAlloc ==
    /\ pc = "getCharacters"
    /\ InRange(c, desc.to)
    /\ Len(result) >= MaxStringSize
    /\ exit_status' = "SIGABRT"
    /\ pc' = "exited"
    /\ UNCHANGED <<argv, out, arg_ind, desc, c, result, characters,
                   renderVars, sample>>

\* return result;
getCharacters_Return ==
    /\ pc = "getCharacters"
    /\ ~InRange(c, desc.to)
    /\ characters' = result
    /\ result' = <<>>
    /\ pc' = "openFontArray"
    /\ UNCHANGED <<argv, exit_status, out, arg_ind, desc, c, renderVars, sample>>

\* type = argv[2]; name = argv[3]; openFontArray(type, name);
main_OpenFontArray ==
    /\ pc = "openFontArray"
    /\ out' = out \o openFontArray(Arg(arg_ind), Arg(arg_ind + 1))
    /\ arg_ind' = arg_ind + 2
    /\ pc' = "loop"
    /\ UNCHANGED <<argv, exit_status, desc, c, result, characters, renderVars, sample>>

\* desc.name.empty() == false
HasName(d) == d.name # <<>>

\* stoul succeeds: desc.size = number; a table when a name is recorded.
main_SizeToken ==
    /\ pc = "loop"
    /\ arg_ind < argc
    /\ LET number == stoul(Arg(arg_ind)) IN
       /\ number.status = "ok"
       /\ desc' = [desc EXCEPT !.size = ToInt(number.value)]
       /\ IF HasName(desc)
          THEN pc' = "appendFontBitmap" /\ UNCHANGED arg_ind
          ELSE pc' = "loop" /\ arg_ind' = arg_ind + 1
    /\ UNCHANGED <<argv, exit_status, out, c, result, characters, renderVars, sample>>

\* catch (std::invalid_argument&): desc.name = argv[arg_ind]
main_NameToken ==
    /\ pc = "loop"
    /\ arg_ind < argc
    /\ stoul(Arg(arg_ind)).status = "invalid_argument"
    /\ desc' = [desc EXCEPT !.name = Arg(arg_ind)]
    /\ arg_ind' = arg_ind + 1
    /\ UNCHANGED <<argv, pc, exit_status, out, c, result, characters, renderVars, sample>>

\* std::out_of_range is not caught: std::terminate
main_Terminate ==
    /\ pc = "loop"
    /\ arg_ind < argc
    /\ stoul(Arg(arg_ind)).status = "out_of_range"
    /\ exit_status' = "SIGABRT"
    /\ pc' = "exited"
    /\ UNCHANGED <<argv, out, arg_ind, desc, c, result, characters, renderVars, sample>>

\* closeFontArray(); return EXIT_SUCCESS;
main_Return ==
    /\ pc = "loop"
    /\ arg_ind >= argc
    /\ out' = out \o closeFontArray
    /\ exit_status' = "EXIT_SUCCESS"
    /\ pc' = "exited"
    /\ UNCHANGED <<argv, arg_ind, desc, c, result, characters, renderVars, sample>>

(***************************************************************************)
(* appendFontBitmap(characters, font, desc)                                *)
(***************************************************************************)
\* QFont font(QString::fromStdString(desc.name), desc.size)
Font == QFont(desc.name, desc.size)

\* Metrics, canvas (its pixels not yet initialised), painter, table header.
appendFontBitmap_Begin ==
    /\ pc = "appendFontBitmap"
    /\ height' = FontMetricsHeight(Font)
    /\ y' = FontMetricsOverlinePos(Font) - 1
    /\ \E garbage \in {Black, White} :
          pixmap' = Canvas(FontMetricsMaxWidth(Font), FontMetricsHeight(Font), garbage)
    /\ out' = out \o TableHeader(desc, FontMetricsHeight(Font))
    /\ ch_ind' = 1
    /\ pc' = "fill"
    /\ UNCHANGED <<argv, exit_status, arg_ind, desc, c, result, characters,
                   image, width, row_y, sample>>

\* A fill that leaves the canvas as it is.
fillNothing(canvas, color) == canvas

\* pixmap.fill(Qt::black)
fill(canvas, color) == [p \in DOMAIN canvas |-> color]

appendFontBitmap_Fill ==
    /\ pc = "fill"
    /\ ch_ind <= Len(characters)
    /\ pixmap' = fill(pixmap, Black)
    /\ pc' = "drawText"
    /\ UNCHANGED <<argv, exit_status, out, arg_ind, desc, c, result, characters,
                   height, y, image, width, ch_ind, row_y, sample>>

\* drawText; image = pixmap.toImage(); width = metrics.width(c); entry header.
appendFontBitmap_DrawText ==
    /\ pc = "drawText"
    /\ pixmap' = drawText(pixmap, Font, y, characters[ch_ind])
    /\ image' = pixmap'
    /\ width' = FontMetricsWidth(Font, characters[ch_ind])
    /\ out' = out \o CharHeader(width')
    /\ row_y' = 0
    /\ pc' = "rows"
    /\ UNCHANGED <<argv, exit_status, arg_ind, desc, c, result, characters,
                   height, y, ch_ind, sample>>

\* A row loop that runs once too often: y <= height.
MoreRowsInclusive(r, h) == r <= h

\* The loop condition y < height of the row loop.
MoreRows(r, h) == r < h

\* One pixel row.
appendFontBitmap_Row ==
    /\ pc = "rows"
    /\ MoreRows(row_y, height)
    /\ out' = Append(out, RowLine(image, row_y, width))
    /\ row_y' = row_y + 1
    /\ UNCHANGED <<argv, pc, exit_status, arg_ind, desc, c, result, characters,
                   height, y, pixmap, image, width, ch_ind, sample>>

\* The entry's closing lines; the next character.
appendFontBitmap_EndChar ==
    /\ pc = "rows"
    /\ ~MoreRows(row_y, height)
    /\ out' = out \o CharFooter
    /\ ch_ind' = ch_ind + 1
    /\ pc' = "fill"
    /\ UNCHANGED <<argv, exit_status, arg_ind, desc, c, result, characters,
                   height, y, pixmap, image, width, row_y, sample>>

\* The table's closing lines; back in main: ++arg_ind.
appendFontBitmap_Return ==
    /\ pc = "fill"
    /\ ch_ind > Len(characters)
    /\ out' = out \o TableFooter
    /\ arg_ind' = arg_ind + 1
    /\ pc' = "loop"
    /\ UNCHANGED <<argv, exit_status, desc, c, result, characters, renderVars, sample>>

Next ==
    \/ main_Usage
    \/ main_ParseRange
    \/ getCharacters_Append
    \/ getCharacters_BadAlloc
    \/ getCharacters_Return
    \/ main_OpenFontArray
    \/ main_SizeToken
    \/ main_NameToken
    \/ main_Terminate
    \/ main_Return
    \/ appendFontBitmap_Begin
    \/ appendFontBitmap_Fill
    \/ appendFontBitmap_DrawText
    \/ appendFontBitmap_Row
    \/ appendFontBitmap_EndChar
    \/ appendFontBitmap_Return

Spec == Init /\ [][Next]_vars

(***************************************************************************)
(* normalize on its own: one call on a pixel sample.                       *)
(***************************************************************************)
ChannelValues == {0, 1, 2, 3, 84, 85, 86, 127, 128, 170, 171, 253, 254, 255}

AlphaValues == {0, 255}

InitNormalize ==
    /\ argv = <<ProgramName>>
    /\ pc = "normalize"
    /\ exit_status = "running"
    /\ out = <<>>
    /\ arg_ind = 1
    /\ desc = NoDesc
    /\ c = 0
    /\ result = <<>>
    /\ characters = <<>>
    /\ height = 0
    /\ y = 0
    /\ pixmap = NoCanvas
    /\ image = NoCanvas
    /\ width = 0
    /\ ch_ind = 0
    /\ row_y = 0
    /\ \E a \in AlphaValues, r \in ChannelValues, g \in ChannelValues, b \in ChannelValues :
          sample = [color |-> <<a * 256 + r, g * 256 + b>>,
                    red |-> r, green |-> g, blue |-> b,
                    result |-> 0, pc |-> "call"]

normalize_Call ==
    /\ pc = "normalize"
    /\ sample.pc = "call"
    /\ sample' = [sample EXCEPT !.result = normalize(sample.color, 255),
                                !.pc = "returned"]
    /\ UNCHANGED <<argv, pc, exit_status, out, arg_ind, desc, c, result, characters,
                   renderVars>>

NextNormalize == normalize_Call

SpecNormalize == InitNormalize /\ [][NextNormalize]_vars

(***************************************************************************)
(* Reading the output text back.                                           *)
(***************************************************************************)
TableOpenLine == indent(1) \o <<"{">>

EntryOpenLine == indent(3) \o <<"{">>

EntryCloseLine == indent(3) \o <<"}", ",">>

\* A field line without its indentation and its trailing comma.
Field(line, tabs) == SubSeq(line, tabs + 1, Len(line) - 1)

\* The font name of a name line: between the quotes.
QuotedField(line, tabs) == SubSeq(line, tabs + 2, Len(line) - 2)

RECURSIVE ParseNat(_)
ParseNat(t) ==
    IF t = <<>> THEN 0
    ELSE ParseNat(SubSeq(t, 1, Len(t) - 1)) * 10 + DigitValue(t[Len(t)])

TableStarts(o) == {i \in 1..Len(o) : o[i] = TableOpenLine}

EntryStarts(o) == {i \in 1..Len(o) : o[i] = EntryOpenLine}

\* The table an output line belongs to: the last table opened before it.
TableOf(o, i) == CHOOSE t \in TableStarts(o) :
                    t < i /\ \A u \in TableStarts(o) : u < i => u <= t

\* The line closing the entry opened at line i, or 0.
EntryEnd(o, i) ==
    IF \E j \in (i + 1)..Len(o) : o[j] = EntryCloseLine
    THEN CHOOSE j \in (i + 1)..Len(o) :
            o[j] = EntryCloseLine /\ \A k \in (i + 1)..(j - 1) : o[k] # EntryCloseLine
    ELSE 0

\* The number of values of a pixel row: each value ends with a comma.
Cells(line) == Cardinality({k \in 1..Len(line) : line[k] = ","})

\* The tables of the output, in order: font name and size as written.
RECURSIVE EmittedTables(_, _)
EmittedTables(o, i) ==
    IF i > Len(o) THEN <<>>
    ELSE IF o[i] = TableOpenLine
         THEN <<[name |-> QuotedField(o[i + 1], 2), size |-> Field(o[i + 2], 2)]>>
              \o EmittedTables(o, i + 1)
         ELSE EmittedTables(o, i + 1)

\* The font tokens of the command line: argv[5] .. argv[argc - 1].
FontArgs == SubSeq(argv, 6, Len(argv))

\* A token stoul reads digits from is a size token, any other a name token.
IsSizeToken(t) == stoul(t).status # "invalid_argument"

\* The tables the token stream asks for: one per size token after a name token.
RECURSIVE ExpectedTables(_, _, _, _)
ExpectedTables(toks, i, name, named) ==
    IF i > Len(toks) THEN <<>>
    ELSE IF IsSizeToken(toks[i])
         THEN (IF named THEN <<[name |-> name, size |-> toks[i]]>> ELSE <<>>)
              \o ExpectedTables(toks, i + 1, name, named)
         ELSE ExpectedTables(toks, i + 1, toks[i], TRUE)

\* The codes from..to in ascending order.
Codes(from, to) == [i \in 1..(to - from + 1) |-> from + i - 1]

IsPrefix(s, t) == Len(s) <= Len(t) /\ s = SubSeq(t, 1, Len(s))

\* The two range arguments parse and, coerced, satisfy from <= to.
ArgsParse == argc >= 7 /\ stoul(Arg(1)).status = "ok" /\ stoul(Arg(2)).status = "ok"

\* A range argument as the interface states it: a value above 255 counts as 0.
Coerced(tok) == IF ULongLeq(stoul(tok).value, 255) THEN stoul(tok).value[1] ELSE 0

ValidRun == ArgsParse /\ Coerced(Arg(1)) <= Coerced(Arg(2))

LoopEntered == argc >= 7 /\ out # <<>>

\* The entries of the table opened at line t.
EntriesOf(o, t) == {i \in EntryStarts(o) : TableOf(o, i) = t}

(***************************************************************************)
(* C1: for every range from <= to <= 255, to = 255 included, the string    *)
(* getCharacters builds holds the codes from..to in ascending order and    *)
(* nothing else, and every table written carries the range fields          *)
(* (from, to) and to - from + 1 character entries.                         *)
(***************************************************************************)
C1_RangeAndCount ==
    /\ pc = "getCharacters" => IsPrefix(result, Codes(desc.from, desc.to))
    /\ LoopEntered => characters = Codes(desc.from, desc.to)
    /\ pc \in {"loop", "exited"} =>
          \A t \in TableStarts(out) :
             /\ Field(out[t + 4], 2) = Decimal(desc.from)
             /\ Field(out[t + 5], 2) = Decimal(desc.to)
             /\ Cardinality(EntriesOf(out, t)) = desc.to - desc.from + 1

(***************************************************************************)
(* C2: when the run is over, the tables written are, in token order, one   *)
(* per size token that follows a name token, each with that size and the   *)
(* most recent name; name tokens and size tokens before any name write     *)
(* nothing and do not stop the later tokens.                               *)
(***************************************************************************)
C2_TablesFollowTokens ==
    (pc = "exited" /\ LoopEntered) =>
        EmittedTables(out, 1) = ExpectedTables(FontArgs, 1, <<>>, FALSE)

(***************************************************************************)
(* C3: a run that passed the argument validation has, when it is over,     *)
(* written the opening declaration once, before everything else, and the   *)
(* closing sequence once, after everything else.                           *)
(***************************************************************************)
C3_WrappedOnce ==
    (pc = "exited" /\ ValidRun) =>
        /\ Len(out) >= 3
        /\ SubSeq(out, 1, 2) = openFontArray(Arg(3), Arg(4))
        /\ out[Len(out)] = closeFontArray[1]
        /\ \A i \in 3..Len(out) : out[i] # <<"{">>
        /\ \A i \in 1..(Len(out) - 1) : out[i] # closeFontArray[1]
        /\ \A t \in TableStarts(out) : 2 < t /\ t < Len(out)

(***************************************************************************)
(* C4: a run with at least 6 arguments and a coerced range from <= to ends *)
(* with the success status, the closing sequence written last; every other *)
(* run ends with another status.                                           *)
(***************************************************************************)
C4_ValidRunsSucceed ==
    pc = "exited" =>
        IF ValidRun
        THEN /\ exit_status = "EXIT_SUCCESS"
             /\ out # <<>>
             /\ out[Len(out)] = closeFontArray[1]
        ELSE exit_status \in {"EXIT_FAILURE", "SIGABRT"}

(***************************************************************************)
(* C5: with fewer than 6 arguments the run writes the usage message and    *)
(* nothing else, and ends with the failure status; with a coerced range    *)
(* from > to (a value above 255 counting as 0) it writes nothing at all    *)
(* and ends with the failure status.                                       *)
(***************************************************************************)
C5_RejectedWriteNothing ==
    /\ argc < 7 =>
          /\ out \in {<<>>, <<UsageLine(Arg(0))>>}
          /\ pc = "exited" => exit_status = "EXIT_FAILURE" /\ out = <<UsageLine(Arg(0))>>
    /\ (ArgsParse /\ Coerced(Arg(1)) > Coerced(Arg(2))) =>
          /\ out = <<>>
          /\ pc = "exited" => exit_status = "EXIT_FAILURE"

\* A run rejected because its "to" argument, above 255, counted as 0.
C5_Witness ==
    /\ pc = "exited"
    /\ ArgsParse
    /\ ~ULongLeq(stoul(Arg(2)).value, 255)
    /\ Coerced(Arg(1)) > 0
    /\ exit_status = "EXIT_FAILURE"

(***************************************************************************)
(* C6: for channels in 0..255 the value normalize(sample, 255) returns is  *)
(* floor((red + green + blue) * 255 / (3 * 255)), lies in 0..255, does not *)
(* decrease when a channel grows, is 0 for black and 255 for white.        *)
(***************************************************************************)
C6_Normalize ==
    sample.pc = "returned" =>
        LET sum == sample.red + sample.green + sample.blue
            hi == sample.color[1] - sample.red
        IN  /\ sample.result * 765 <= sum * 255
            /\ sum * 255 < (sample.result + 1) * 765
            /\ sample.result \in 0..255
            /\ \A v \in ChannelValues :
                  /\ v >= sample.red =>
                        normalize(<<hi + v, sample.color[2]>>, 255) >= sample.result
                  /\ v >= sample.green =>
                        normalize(<<sample.color[1], v * 256 + sample.blue>>, 255)
                            >= sample.result
                  /\ v >= sample.blue =>
                        normalize(<<sample.color[1], sample.green * 256 + v>>, 255)
                            >= sample.result
            /\ sum = 0 => sample.result = 0
            /\ sum = 765 => sample.result = 255

\* normalize has returned 255 for a white sample.
C6_Witness ==
    /\ sample.pc = "returned"
    /\ sample.red = 255 /\ sample.green = 255 /\ sample.blue = 255
    /\ sample.result = 255

(***************************************************************************)
(* C7: every character entry written has as many pixel rows as the line    *)
(* height in the header of its table, and every row holds as many values   *)
(* as the width written for the character; a width of 0 gives line-height  *)
(* empty rows.                                                             *)
(***************************************************************************)
C7_RowsAndWidths ==
    \A i \in EntryStarts(out) :
        LET e == EntryEnd(out, i)
            h == ParseNat(Field(out[TableOf(out, i) + 3], 2))
            w == ParseNat(Field(out[i + 1], 4))
        IN  e # 0 =>
               /\ e - i - 4 = h
               /\ \A k \in (i + 3)..(e - 2) :
                     /\ Len(out[k]) >= 5
                     /\ SubSeq(out[k], 1, 5) = indent(5)
                     /\ Cells(out[k]) = w
                     /\ w = 0 => out[k] = indent(5)

\* A finished run whose output holds an entry of width 0 with its rows.
C7_Witness ==
    /\ pc = "exited"
    /\ exit_status = "EXIT_SUCCESS"
    /\ \E i \in EntryStarts(out) :
          /\ Field(out[i + 1], 4) = <<"0">>
          /\ EntryEnd(out, i) - i - 4 = 2
    /\ \E i \in EntryStarts(out) : Field(out[i + 1], 4) = <<"2">>

(***************************************************************************)
(* C8: every table is one brace group at the top level of the array whose  *)
(* closing brace is followed by a comma.                                   *)
(***************************************************************************)
C8_TablesCommaSeparated ==
    \A i \in 1..Len(out) :
        (Len(out[i]) >= 2 /\ out[i][1] = "\t" /\ out[i][2] = "}") =>
            out[i] = indent(1) \o <<"}", ",">>

(***************************************************************************)
(* C9: the size written in a table is the text of the size token that      *)
(* started the table, and a positive integer.                              *)
(***************************************************************************)
C9_SizePositive ==
    pc \in {"fill", "drawText", "rows"} =>
        LET t == CHOOSE u \in TableStarts(out) : \A v \in TableStarts(out) : v <= u
            size == Field(out[t + 2], 2)
        IN  /\ size = Arg(arg_ind)
            /\ size[1] # "-"
            /\ ParseNat(size) > 0

(***************************************************************************)
(* C10: the canvas is black all over when a character is drawn, and the    *)
(* image the character's rows are read from is the character drawn on a    *)
(* black canvas, whatever was rendered before.                             *)
(***************************************************************************)
C10_FreshCanvas ==
    /\ pc = "drawText" => \A p \in DOMAIN pixmap : pixmap[p] = Black
    /\ pc = "rows" =>
          \A p \in DOMAIN image :
             image[p] = BlendPixel(Black, GlyphCoverage(Font, characters[ch_ind],
                                                       p[1], p[2] - y))

\* A character is about to be drawn after one that left ink on the canvas.
C10_Witness ==
    /\ pc = "drawText"
    /\ ch_ind > 1
    /\ \E p \in DOMAIN image : image[p] # Black

====
